---- MODULE Spec2Model ----
(***************************************************************************)
(* Model of the Lambda handlers of lambda-gateway/src/lambda/handler.ts    *)
(* and of utils/fetchSecret.ts, as they run inside one Node.js process:    *)
(* the module-level `users` array and `requestCount` counter, the seven    *)
(* routed handlers, and loginRoute's suspension at its await.              *)
(***************************************************************************)
EXTENDS Integers, Sequences, FiniteSets, TLC

VARIABLES users, requestCount, pending, req, resp, fetched, trace, created, removed,
          lambdas, page, calls, acted

vars == <<users, requestCount, pending, req, resp, fetched, trace, created, removed,
          lambdas, page, calls, acted>>

\* the state of the deployed functions and of the dashboard: the handlers of
\* one process touch none of it
outside == <<lambdas, page, calls, acted>>

(***************************************************************************)
(* Bounds of the exploration.                                              *)
(***************************************************************************)
\* handler invocations explored in one process lifetime
MaxRequests == 3
\* records createProfile may append in one process lifetime
MaxUsers == 2
\* loginRoute invocations that may be suspended at the await at once
MaxPending == 1
\* requests of the dashboard that may be awaiting their answer at once
MaxInFlight == 1
\* handler invocations and records explored when only the UserDirectory
\* handlers are called
MaxDirectoryRequests == 5
MaxDirectoryUsers == 3

(***************************************************************************)
(* JavaScript values: a type tag and the value's text.                     *)
(***************************************************************************)
Undefined == [t |-> "undefined", v |-> "undefined"]
Null == [t |-> "null", v |-> "null"]
Str(s) == [t |-> "string", v |-> s]
Num(s) == [t |-> "number", v |-> s]
Obj(u, e, k) == [t |-> "object", v |-> "[object Object]",
                 username |-> u, email |-> e, encryptionKey |-> k]

\* x !== undefined && x !== null: the empty string and 0 pass
TruthyWhenDefined(x) == x.t \notin {"undefined", "null"}

\* ToBoolean: what `!x`, `x || y` and `x ? a : b` test
Truthy(x) ==
    CASE x.t = "undefined" -> FALSE
      [] x.t = "null" -> FALSE
      [] x.t = "string" -> x.v # ""
      [] x.t = "number" -> x.v # "0"
      [] OTHER -> TRUE

\* x ?? d
Coalesce(x, d) == IF x.t \in {"undefined", "null"} THEN d ELSE x

\* x || d
OrElse(x, d) == IF Truthy(x) THEN x ELSE d

\* ToString, as a template literal applies it
ToStringJS(x) == x.v

(***************************************************************************)
(* JSON.parse on the texts the model feeds it.  ok = FALSE is the          *)
(* SyntaxError JSON.parse throws.                                          *)
(***************************************************************************)
T_EMPTY == "{}"
T_ALICE == "{\"username\":\"alice\"}"
T_ALICE_NOMAIL == "{\"username\":\"alice\",\"email\":\"\"}"
T_ALICE_MAIL == "{\"username\":\"alice\",\"email\":\"alice@corp.io\"}"
T_BLANK == "{\"username\":\"\"}"
T_NUMNAME == "{\"username\":5}"
T_NULL == "null"
T_GARBAGE == "not json"
T_KEY == "{\"encryptionKey\":\"k1\"}"

JSONparse(text) ==
    CASE text = T_EMPTY -> [ok |-> TRUE, val |-> Obj(Undefined, Undefined, Undefined)]
      [] text = T_ALICE -> [ok |-> TRUE, val |-> Obj(Str("alice"), Undefined, Undefined)]
      [] text = T_ALICE_NOMAIL -> [ok |-> TRUE, val |-> Obj(Str("alice"), Str(""), Undefined)]
      [] text = T_ALICE_MAIL ->
            [ok |-> TRUE, val |-> Obj(Str("alice"), Str("alice@corp.io"), Undefined)]
      [] text = T_BLANK -> [ok |-> TRUE, val |-> Obj(Str(""), Undefined, Undefined)]
      [] text = T_NUMNAME -> [ok |-> TRUE, val |-> Obj(Num("5"), Undefined, Undefined)]
      [] text = T_KEY -> [ok |-> TRUE, val |-> Obj(Undefined, Undefined, Str("k1"))]
      [] text = T_NULL -> [ok |-> TRUE, val |-> Null]
      [] OTHER -> [ok |-> FALSE, val |-> Undefined]

\* reading a property of null or undefined throws a TypeError
CanRead(x) == x.t \notin {"undefined", "null"}

(***************************************************************************)
(* The requests and environment outcomes explored.                         *)
(***************************************************************************)
\* event.body of POST /profile
ProfileBodies ==
    {Undefined, Str(T_ALICE), Str(T_ALICE_NOMAIL), Str(T_ALICE_MAIL), Str(T_BLANK),
     Str(T_NULL), Str(T_GARBAGE)}

\* event.body of POST /login
LoginBodies == {Undefined, Str(T_ALICE), Str(T_NUMNAME), Str(T_GARBAGE)}

\* values Math.random() returns: the double num/den, named by its literal
RandomDraws ==
    {[lit |-> "0.5", num |-> 1, den |-> 2],
     [lit |-> "0.1", num |-> 1, den |-> 10],
     [lit |-> "0.9", num |-> 9, den |-> 10]}

\* Number.prototype.toString(36) of the draws, as its characters
toString36(r) ==
    CASE r.lit = "0.5" -> <<"0", ".", "i">>
      [] r.lit = "0.1" -> <<"0", ".", "3", "l", "l", "l", "l", "l", "l", "l", "l", "l", "m">>
      [] r.lit = "0.9" -> <<"0", ".", "w", "e", "e", "e", "e", "e", "e", "e", "e", "e", "9">>

\* String.prototype.substring(from): the characters from index `from` on
substring(chars, from) ==
    IF from >= Len(chars) THEN <<>> ELSE SubSeq(chars, from + 1, Len(chars))

RECURSIVE Join(_)
Join(chars) == IF chars = <<>> THEN "" ELSE Head(chars) \o Join(Tail(chars))

\* Math.random().toString(36).substring(7)
NewId(r) == Join(substring(toString36(r), 7))

\* Math.ceil(Math.random() * n)
CeilTimes(r, n) == (r.num * n + r.den - 1) \div r.den

\* Math.floor(Math.random() * n)
FloorTimes(r, n) == (r.num * n) \div r.den

\* event.pathParameters?.id of DELETE /users/{id}
PathIds == {Undefined, Str("nosuch")} \cup {Str(NewId(r)) : r \in RandomDraws}

\* what secretClient.send(command) settles to
SecretOutcomes ==
    {[threw |-> TRUE, SecretString |-> Undefined],
     [threw |-> FALSE, SecretString |-> Undefined],
     [threw |-> FALSE, SecretString |-> Str("")],
     [threw |-> FALSE, SecretString |-> Str(T_EMPTY)],
     [threw |-> FALSE, SecretString |-> Str(T_KEY)],
     [threw |-> FALSE, SecretString |-> Str(T_GARBAGE)]}

\* no Secrets Manager call was made
NoOutcome == [threw |-> FALSE, SecretString |-> Str("(not fetched)")]

\* what process.memoryUsage() returns
MemorySamples ==
    {[rss |-> 5, heapTotal |-> 4, heapUsed |-> 3, external |-> 1, arrayBuffers |-> 0]}

\* the instant new Date() and process.uptime() are sampled at: no handler
\* computes with the time, it is only written into records and responses
Clock == {0}

NoEvent == [route |-> "none", body |-> Undefined, id |-> Undefined]
Event(route, body, id) == [route |-> route, body |-> body, id |-> id]

(***************************************************************************)
(* Responses.                                                              *)
(***************************************************************************)
corsHeaders ==
    [AllowOrigin |-> "*", AllowHeaders |-> "Content-Type",
     AllowMethods |-> "GET,POST,PUT,DELETE,OPTIONS"]

NoHeaders == [AllowOrigin |-> "", AllowHeaders |-> "", AllowMethods |-> ""]

Response(status, body) ==
    [outcome |-> "response", statusCode |-> status, headers |-> corsHeaders, body |-> body]

\* the handler's promise rejects: an exception left the handler
Fault(error) ==
    [outcome |-> "fault", statusCode |-> 0, headers |-> NoHeaders,
     body |-> [message |-> error]]

NoResponse ==
    [outcome |-> "none", statusCode |-> 0, headers |-> NoHeaders, body |-> [message |-> ""]]

\* new Date(ms).toISOString(), for the sampled clock values
toISOString(ms) == "1970-01-01T00:00:00.00" \o ToString(ms) \o "Z"

\* the functions LambdaGatewayStack deploys for the seven routes
Functions ==
    {"homeLambda", "profileLambda", "getUsersLambda", "deleteUserLambda", "getQuoteLambda",
     "getStatsLambda", "loginLambda"}

\* the module state of handler.ts when a function instance has loaded it
ColdStart == [users |-> <<>>, requestCount |-> 0]

\* the useState values of the dashboard's first render; the two text inputs
\* are held as their characters
Home ==
    [data |-> "", users |-> <<>>, quote |-> Null, stats |-> Null,
     username |-> <<>>, email |-> <<>>, loading |-> FALSE]

\* nothing has happened on the dashboard
NoAct == [handler |-> "none", step |-> "none"]

Init ==
    /\ lambdas = [f \in Functions |-> ColdStart]
    /\ page = Home
    /\ calls = <<>>
    /\ acted = NoAct
    /\ users = <<>>
    /\ requestCount = 0
    /\ pending = <<>>
    /\ req = NoEvent
    /\ resp = NoResponse
    /\ fetched = NoOutcome
    /\ trace = <<>>
    /\ created = <<>>
    /\ removed = <<>>

\* a handler invocation may begin, when `limit` invocations are explored
Within(limit) == Len(trace) + Len(pending) < limit

\* a handler invocation may begin
CanInvoke == Within(MaxRequests)

\* the invocation of `event` settles with `response`; `outcome` is what its
\* Secrets Manager call settled with, NoOutcome when it made none
Settle(event, response, outcome) ==
    /\ req' = event
    /\ resp' = response
    /\ fetched' = outcome
    /\ trace' = Append(trace, [route |-> event.route, status |-> response.statusCode])

Done(event, response) == Settle(event, response, NoOutcome)

\* requestCount--
Decrement(n) == n - 1

\* the counter is left as it was
IncrementSkipped(n) == n

\* requestCount++
Increment(n) == n + 1

\* GET /   (the message is "Welcome to the API! " followed by a rocket emoji)
homeRoute ==
    /\ CanInvoke
    /\ \E now \in Clock :
         /\ requestCount' = Increment(requestCount)
         /\ Done(Event("homeRoute", Undefined, Undefined),
                 Response(200, [message |-> "Welcome to the API!",
                                timestamp |-> toISOString(now),
                                requestNumber |-> requestCount']))
    /\ UNCHANGED <<users, pending, created, removed>>
    /\ UNCHANGED outside

(***************************************************************************)
(* UserDirectory: createProfile, getUsers, deleteUser.                     *)
(***************************************************************************)
\* body.email ?? `${body.username}@example.com`: an empty email is kept
EmailOfNullish(body) ==
    Coalesce(body.email, Str(ToStringJS(body.username) \o "@example.com"))

\* body.email || `${body.username}@example.com`
EmailOf(body) == OrElse(body.email, Str(ToStringJS(body.username) \o "@example.com"))

\* a newUser object whose username is taken from the email
NewUserNamedByEmail(body, r, now) ==
    [id |-> NewId(r), username |-> EmailOf(body), email |-> EmailOf(body),
     createdAt |-> toISOString(now)]

\* the newUser object literal of createProfile
NewUser(body, r, now) ==
    [id |-> NewId(r), username |-> body.username, email |-> EmailOf(body),
     createdAt |-> toISOString(now)]

\* users.length - 1: the last index is taken for the count
lastIndex(us) == Len(us) - 1

\* users.length
length(us) == Len(us)

\* users.unshift(newUser): the record is put in front
pushFront(us, u) == <<u>> \o us

\* users = [newUser]: the collection is replaced
pushReplacing(us, u) == <<u>>

\* users.push(newUser)
push(us, u) == Append(us, u)

\* the records of `us` that carry the id `userId`
Carrying(us, userId) == SelectSeq(us, LAMBDA user : user.id = userId)

\* the first record with the id is overwritten by the last record, which is
\* then popped (removal by swapping)
filterSwapRemove(us, userId) ==
    LET hits == {i \in 1..Len(us) : us[i].id = userId}
    IN  IF hits = {} THEN us
        ELSE LET first == CHOOSE i \in hits : \A j \in hits : i <= j
                 rest == SubSeq(us, 1, Len(us) - 1)
             IN  IF first = Len(us) THEN rest
                 ELSE [rest EXCEPT ![first] = us[Len(us)]]

\* only the first record with the id is dropped
filterFirst(us, userId) ==
    LET hits == {i \in 1..Len(us) : us[i].id = userId}
    IN  IF hits = {} THEN us
        ELSE LET first == CHOOSE i \in hits : \A j \in hits : i <= j
             IN  SubSeq(us, 1, first - 1) \o SubSeq(us, first + 1, Len(us))

\* users.filter((user) => user.id === userId): the test is inverted
filterKeepingMatch(us, userId) == SelectSeq(us, LAMBDA user : user.id = userId)

\* users.filter((user) => user.id !== userId)
filter(us, userId) == SelectSeq(us, LAMBDA user : user.id # userId)

\* JSON.stringify of one user record: a property whose value is undefined is left out
StringifyUser(u) ==
    IF u.username.t = "undefined"
    THEN [id |-> u.id, email |-> u.email, createdAt |-> u.createdAt]
    ELSE [id |-> u.id, username |-> u.username, email |-> u.email,
          createdAt |-> u.createdAt]

StringifyUsers(us) == [i \in 1..Len(us) |-> StringifyUser(us[i])]

\* POST /profile   (the message ends with a party emoji), with event.body
\* drawn from `bodies`, explored up to `limit` invocations and `capacity`
\* records
createProfileOf(bodies, limit, capacity) ==
    /\ Within(limit)
    /\ \E text \in bodies, r \in RandomDraws, now \in Clock :
         LET event == Event("createProfile", text, Undefined)
             parsed == JSONparse(Coalesce(event.body, Str("{}")).v)
             body == parsed.val
             newUser == NewUser(body, r, now)
         IN  IF ~parsed.ok
             THEN /\ Done(event, Fault("SyntaxError"))
                  /\ UNCHANGED <<users, requestCount, created>>
             ELSE IF ~CanRead(body)
             THEN /\ Done(event, Fault("TypeError"))
                  /\ UNCHANGED <<users, requestCount, created>>
             ELSE /\ Len(created) < capacity
                  /\ users' = push(users, newUser)
                  /\ requestCount' = Increment(requestCount)
                  /\ created' = Append(created, newUser)
                  /\ Done(event,
                          Response(201, [message |-> "Profile created successfully!",
                                         user |-> StringifyUser(newUser),
                                         totalUsers |-> length(users')]))
    /\ UNCHANGED <<pending, removed>>
    /\ UNCHANGED outside

\* POST /profile
createProfile == createProfileOf(ProfileBodies, MaxRequests, MaxUsers)

\* GET /users, explored up to `limit` invocations
getUsersWithin(limit) ==
    /\ Within(limit)
    /\ requestCount' = Increment(requestCount)
    /\ Done(Event("getUsers", Undefined, Undefined),
            Response(200, [message |-> "Users retrieved successfully",
                           users |-> StringifyUsers(users),
                           count |-> length(users)]))
    /\ UNCHANGED <<users, pending, created, removed>>
    /\ UNCHANGED outside

\* a getUsers that empties the collection while reading it (users.splice(0))
getUsersDraining ==
    /\ CanInvoke
    /\ requestCount' = Increment(requestCount)
    /\ Done(Event("getUsers", Undefined, Undefined),
            Response(200, [message |-> "Users retrieved successfully",
                           users |-> StringifyUsers(users),
                           count |-> length(users)]))
    /\ users' = <<>>
    /\ UNCHANGED <<pending, created, removed>>
    /\ UNCHANGED outside

\* GET /users
getUsers == getUsersWithin(MaxRequests)

\* DELETE /users/{id}   (the 200 message ends with a wastebasket emoji),
\* explored up to `limit` invocations
deleteUserWithin(limit) ==
    /\ Within(limit)
    /\ \E userId \in PathIds :
         LET event == Event("deleteUser", Undefined, userId)
             initialLength == length(users)
         IN  IF ~Truthy(userId)
             THEN /\ Done(event, Response(400, [message |-> "User ID is required"]))
                  /\ UNCHANGED <<users, requestCount, removed>>
             ELSE /\ users' = filter(users, userId.v)
                  /\ removed' = removed \o Carrying(users, userId.v)
                  /\ requestCount' = Increment(requestCount)
                  /\ IF length(users') < initialLength
                     THEN Done(event,
                               Response(200, [message |-> "User deleted successfully!",
                                              remainingUsers |-> length(users')]))
                     ELSE Done(event, Response(404, [message |-> "User not found"]))
    /\ UNCHANGED <<pending, created>>
    /\ UNCHANGED outside

\* DELETE /users/{id}
deleteUser == deleteUserWithin(MaxRequests)

(***************************************************************************)
(* QuoteCatalog and RequestMetrics: getRandomQuote, getStats.              *)
(***************************************************************************)
quotes ==
    << [text |-> "The only way to do great work is to love what you do.",
        author |-> "Steve Jobs"],
       [text |-> "Innovation distinguishes between a leader and a follower.",
        author |-> "Steve Jobs"],
       [text |-> "Code is like humor. When you have to explain it, it's bad.",
        author |-> "Cory House"],
       [text |-> "First, solve the problem. Then, write the code.",
        author |-> "John Johnson"],
       [text |-> "Experience is the name everyone gives to their mistakes.",
        author |-> "Oscar Wilde"],
       [text |-> "Simplicity is the soul of efficiency.",
        author |-> "Austin Freeman"],
       [text |-> "Make it work, make it right, make it fast.",
        author |-> "Kent Beck"],
       [text |-> "Any fool can write code that a computer can understand. Good programmers write code that humans can understand.",
        author |-> "Martin Fowler"] >>

\* arr[i] of JavaScript: undefined outside 0..length-1  (arr[i] of the code is
\* arr[i + 1] here)
At(arr, i) == IF i \in 0..(Len(arr) - 1) THEN arr[i + 1] ELSE Undefined

\* GET /quote
getRandomQuote ==
    /\ CanInvoke
    /\ \E r \in RandomDraws, now \in Clock :
         /\ requestCount' = Increment(requestCount)
         /\ Done(Event("getRandomQuote", Undefined, Undefined),
                 Response(200, [quote |-> At(quotes, FloorTimes(r, Len(quotes))),
                                timestamp |-> toISOString(now)]))
    /\ UNCHANGED <<users, pending, created, removed>>
    /\ UNCHANGED outside

\* GET /stats
getStats ==
    /\ CanInvoke
    /\ \E up \in Clock, mem \in MemorySamples, now \in Clock :
         /\ requestCount' = Increment(requestCount)
         /\ Done(Event("getStats", Undefined, Undefined),
                 Response(200, [totalRequests |-> requestCount',
                                totalUsers |-> length(users),
                                uptime |-> up,
                                memoryUsage |-> mem,
                                timestamp |-> toISOString(now)]))
    /\ UNCHANGED <<users, pending, created, removed>>
    /\ UNCHANGED outside

(***************************************************************************)
(* HashAuthenticator: fetchSecret and loginRoute.                          *)
(***************************************************************************)
\* fetchSecret without its SecretString test: an empty SecretString is returned
fetchSecretUnchecked(outcome) ==
    IF outcome.threw THEN Undefined ELSE outcome.SecretString

\* fetchSecret: the value its promise resolves to
fetchSecret(outcome) ==
    IF outcome.threw THEN Undefined
    ELSE IF ~Truthy(outcome.SecretString) THEN Undefined
    ELSE outcome.SecretString

\* crypto.createHmac("sha256", key).update(msg).digest("hex")
Hmac(key, msg) ==
    CASE key = "" /\ msg = "alice" ->
            "ce3837f76a54a635191b1704ac7672264fc17c3397ff52e7dacfc1ef3603a493"
      [] key = "k1" /\ msg = "alice" ->
            "aff3e2227d2581aeb66e413f8c39d1e207df72e915c13995b2577016f8ec643d"

\* a fallback object without the key
FallbackMissingKey == Obj(Undefined, Undefined, Undefined)

\* { encryptionKey: "" }: what loginRoute takes for the parsed secret when
\* fetchSecret resolved to undefined
FallbackSecret == Obj(Undefined, Undefined, Str(""))

\* a catch block that answers without the CORS headers
CaughtResponseNoCors(err) ==
    [outcome |-> "response", statusCode |-> 500, headers |-> NoHeaders,
     body |-> [message |-> "Internal Server Error"]]

\* a catch block that answers with the error it caught
CaughtResponseLeaking(err) == Response(500, [message |-> err])

\* the catch block of loginRoute
CaughtResponse(err) == Response(500, [message |-> "Internal Server Error"])

\* loginRoute from the await on: secretValue is what fetchSecret resolved to
LoginAfterAwait(username, secretValue) ==
    LET parsed == IF Truthy(secretValue)
                  THEN JSONparse(secretValue.v)
                  ELSE [ok |-> TRUE, val |-> FallbackSecret]
    IN  IF ~parsed.ok THEN CaughtResponse("SyntaxError")
        ELSE IF ~CanRead(parsed.val) THEN CaughtResponse("TypeError")
        ELSE IF parsed.val.encryptionKey.t # "string" THEN CaughtResponse("TypeError")
        ELSE IF username.t # "string" THEN CaughtResponse("TypeError")
        ELSE Response(200, [username |-> Hmac(parsed.val.encryptionKey.v, username.v)])

\* POST /login up to the await: the body is parsed and fetchSecret is called
loginRoute ==
    /\ CanInvoke
    /\ \E text \in LoginBodies :
         LET event == Event("loginRoute", text, Undefined)
             parsed == JSONparse(Coalesce(event.body, Str("{}")).v)
         IN  IF ~parsed.ok
             THEN /\ Done(event, CaughtResponse("SyntaxError"))
                  /\ UNCHANGED pending
             ELSE IF ~CanRead(parsed.val)
             THEN /\ Done(event, CaughtResponse("TypeError"))
                  /\ UNCHANGED pending
             ELSE /\ Len(pending) < MaxPending
                  /\ pending' = Append(pending,
                                       [event |-> event, username |-> parsed.val.username,
                                        since |-> Len(trace)])
                  /\ UNCHANGED <<req, resp, fetched, trace>>
    /\ UNCHANGED <<users, requestCount, created, removed>>
    /\ UNCHANGED outside

\* the awaited fetchSecret settles and a suspended loginRoute runs to its return
loginResume ==
    /\ \E i \in 1..Len(pending), outcome \in SecretOutcomes :
         /\ Settle(pending[i].event,
                   LoginAfterAwait(pending[i].username, fetchSecret(outcome)), outcome)
         /\ pending' = SubSeq(pending, 1, i - 1) \o SubSeq(pending, i + 1, Len(pending))
    /\ UNCHANGED <<users, requestCount, created, removed>>
    /\ UNCHANGED outside

Next ==
    \/ homeRoute
    \/ createProfile
    \/ getUsers
    \/ deleteUser
    \/ getRandomQuote
    \/ getStats
    \/ loginRoute
    \/ loginResume

Spec == Init /\ [][Next]_vars

\* event.body of POST /profile when callers send a username
DirectoryBodies == {Str(T_ALICE), Str(T_ALICE_MAIL)}

\* the UserDirectory handlers alone, over longer runs
NextDirectory ==
    \/ createProfileOf(DirectoryBodies, MaxDirectoryRequests, MaxDirectoryUsers)
    \/ getUsersWithin(MaxDirectoryRequests)
    \/ deleteUserWithin(MaxDirectoryRequests)

SpecDirectory == Init /\ [][NextDirectory]_vars

(***************************************************************************)
(* The deployed topology (lib/lambda-gateway-stack.ts): every route is     *)
(* integrated with a function of its own, and every function has loaded    *)
(* handler.ts for itself, so it has its own `users` and `requestCount`.    *)
(* The functions run side by side: while loginLambda waits at its await,   *)
(* any other function may be invoked and answer.                           *)
(***************************************************************************)
\* one function integrated with every route
SingleIntegration(handler) == "homeLambda"

\* the function whose integration a route was added with, by its handler
Integration(handler) ==
    CASE handler = "homeRoute" -> "homeLambda"
      [] handler = "createProfile" -> "profileLambda"
      [] handler = "getUsers" -> "getUsersLambda"
      [] handler = "deleteUser" -> "deleteUserLambda"
      [] handler = "getRandomQuote" -> "getQuoteLambda"
      [] handler = "getStats" -> "getStatsLambda"
      [] handler = "loginRoute" -> "loginLambda"

\* the module state of the function that runs `handler`
Own(handler) == lambdas[Integration(handler)]

\* that function's module state becomes `us` and `n`
Store(handler, us, n) ==
    lambdas' = [lambdas EXCEPT ![Integration(handler)] = [users |-> us, requestCount |-> n]]

\* the state of the single process and of the dashboard: the deployed
\* functions touch none of it
undeployed ==
    <<users, requestCount, created, removed, page, calls, acted>>

\* GET /
HomeIntegration ==
    /\ CanInvoke
    /\ \E now \in Clock :
         LET own == Own("homeRoute")
         IN  /\ Store("homeRoute", own.users, Increment(own.requestCount))
             /\ Settle(Event("homeRoute", Undefined, Undefined),
                       Response(200, [message |-> "Welcome to the API!",
                                      timestamp |-> toISOString(now),
                                      requestNumber |-> Increment(own.requestCount)]),
                       NoOutcome)
    /\ UNCHANGED pending
    /\ UNCHANGED undeployed

\* POST /profile
ProfileIntegration ==
    /\ CanInvoke
    /\ \E text \in ProfileBodies, r \in RandomDraws, now \in Clock :
         LET event == Event("createProfile", text, Undefined)
             parsed == JSONparse(Coalesce(event.body, Str("{}")).v)
             body == parsed.val
             newUser == NewUser(body, r, now)
             own == Own("createProfile")
         IN  IF ~parsed.ok
             THEN /\ Settle(event, Fault("SyntaxError"), NoOutcome)
                  /\ UNCHANGED lambdas
             ELSE IF ~CanRead(body)
             THEN /\ Settle(event, Fault("TypeError"), NoOutcome)
                  /\ UNCHANGED lambdas
             ELSE /\ Len(own.users) < MaxUsers
                  /\ Store("createProfile", push(own.users, newUser),
                           Increment(own.requestCount))
                  /\ Settle(event,
                            Response(201, [message |-> "Profile created successfully!",
                                           user |-> StringifyUser(newUser),
                                           totalUsers |-> length(push(own.users, newUser))]),
                            NoOutcome)
    /\ UNCHANGED pending
    /\ UNCHANGED undeployed

\* GET /users
GetUsersIntegration ==
    /\ CanInvoke
    /\ LET own == Own("getUsers")
       IN  /\ Store("getUsers", own.users, Increment(own.requestCount))
           /\ Settle(Event("getUsers", Undefined, Undefined),
                     Response(200, [message |-> "Users retrieved successfully",
                                    users |-> StringifyUsers(own.users),
                                    count |-> length(own.users)]),
                     NoOutcome)
    /\ UNCHANGED pending
    /\ UNCHANGED undeployed

\* DELETE /users/{id}
DeleteUserIntegration ==
    /\ CanInvoke
    /\ \E userId \in PathIds :
         LET event == Event("deleteUser", Undefined, userId)
             own == Own("deleteUser")
             initialLength == length(own.users)
             kept == filter(own.users, userId.v)
         IN  IF ~Truthy(userId)
             THEN /\ Settle(event, Response(400, [message |-> "User ID is required"]),
                            NoOutcome)
                  /\ UNCHANGED lambdas
             ELSE /\ Store("deleteUser", kept, Increment(own.requestCount))
                  /\ IF length(kept) < initialLength
                     THEN Settle(event,
                                 Response(200, [message |-> "User deleted successfully!",
                                                remainingUsers |-> length(kept)]),
                                 NoOutcome)
                     ELSE Settle(event, Response(404, [message |-> "User not found"]),
                                 NoOutcome)
    /\ UNCHANGED pending
    /\ UNCHANGED undeployed

\* GET /quote
GetQuoteIntegration ==
    /\ CanInvoke
    /\ \E r \in RandomDraws, now \in Clock :
         LET own == Own("getRandomQuote")
         IN  /\ Store("getRandomQuote", own.users, Increment(own.requestCount))
             /\ Settle(Event("getRandomQuote", Undefined, Undefined),
                       Response(200, [quote |-> At(quotes, FloorTimes(r, Len(quotes))),
                                      timestamp |-> toISOString(now)]),
                       NoOutcome)
    /\ UNCHANGED pending
    /\ UNCHANGED undeployed

\* GET /stats
GetStatsIntegration ==
    /\ CanInvoke
    /\ \E up \in Clock, mem \in MemorySamples, now \in Clock :
         LET own == Own("getStats")
         IN  /\ Store("getStats", own.users, Increment(own.requestCount))
             /\ Settle(Event("getStats", Undefined, Undefined),
                       Response(200, [totalRequests |-> Increment(own.requestCount),
                                      totalUsers |-> length(own.users),
                                      uptime |-> up,
                                      memoryUsage |-> mem,
                                      timestamp |-> toISOString(now)]),
                       NoOutcome)
    /\ UNCHANGED pending
    /\ UNCHANGED undeployed

\* POST /login up to the await of loginRoute: the body is parsed and
\* fetchSecret is called; the other functions go on answering meanwhile
LoginIntegration ==
    /\ CanInvoke
    /\ \E text \in LoginBodies :
         LET event == Event("loginRoute", text, Undefined)
             parsed == JSONparse(Coalesce(event.body, Str("{}")).v)
         IN  IF ~parsed.ok
             THEN /\ Settle(event, CaughtResponse("SyntaxError"), NoOutcome)
                  /\ UNCHANGED pending
             ELSE IF ~CanRead(parsed.val)
             THEN /\ Settle(event, CaughtResponse("TypeError"), NoOutcome)
                  /\ UNCHANGED pending
             ELSE /\ Len(pending) < MaxPending
                  /\ pending' = Append(pending,
                                       [event |-> event, username |-> parsed.val.username,
                                        since |-> Len(trace)])
                  /\ UNCHANGED <<req, resp, fetched, trace>>
    /\ UNCHANGED lambdas
    /\ UNCHANGED undeployed

\* the awaited fetchSecret settles and the suspended loginRoute of loginLambda
\* runs to its return
LoginIntegrationResume ==
    /\ \E i \in 1..Len(pending), outcome \in SecretOutcomes :
         /\ Settle(pending[i].event,
                   LoginAfterAwait(pending[i].username, fetchSecret(outcome)), outcome)
         /\ pending' = SubSeq(pending, 1, i - 1) \o SubSeq(pending, i + 1, Len(pending))
    /\ UNCHANGED lambdas
    /\ UNCHANGED undeployed

NextDeployed ==
    \/ HomeIntegration
    \/ ProfileIntegration
    \/ GetUsersIntegration
    \/ DeleteUserIntegration
    \/ GetQuoteIntegration
    \/ GetStatsIntegration
    \/ LoginIntegration
    \/ LoginIntegrationResume

\* the handlers as LambdaGatewayStack deploys them
SpecDeployed == Init /\ [][NextDeployed]_vars

(***************************************************************************)
(* The dashboard (frontend-app/app/page.tsx): the Home component's state,  *)
(* its six handlers, each split at its await on axios, and the two text    *)
(* inputs.  What the API answers is an input of this part.                 *)
(***************************************************************************)
\* the module state of the handlers: the dashboard reaches none of it
backend ==
    <<users, requestCount, pending, req, resp, fetched, trace, created, removed, lambdas>>

\* what may be typed into the username and the email input
UsernameInputs == {<<>>, <<" ", "\t">>, <<"a">>, <<" ", "a">>}
EmailInputs == {<<>>, <<"m">>}

WhiteSpace == {" ", "\t", "\n", "\r"}

RECURSIVE trimStart(_)
trimStart(chars) ==
    IF chars # <<>> /\ Head(chars) \in WhiteSpace THEN trimStart(Tail(chars)) ELSE chars

RECURSIVE trimEnd(_)
trimEnd(chars) ==
    IF chars # <<>> /\ chars[Len(chars)] \in WhiteSpace
    THEN trimEnd(SubSeq(chars, 1, Len(chars) - 1))
    ELSE chars

\* no trimming: only the empty input counts as blank
trimNothing(chars) == chars

\* String.prototype.trim
trim(chars) == trimEnd(trimStart(chars))

\* a text input's characters as a JavaScript string
Text(chars) == Str(Join(chars))

\* a user as GET /users lists it
ListedUser ==
    [id |-> "lllllm", username |-> "alice", email |-> "alice@example.com",
     createdAt |-> toISOString(0)]

\* what axios settles with: ok = FALSE is a rejected promise (a network error
\* or a status outside 2xx)
Rejected == [ok |-> FALSE, data |-> [message |-> ""]]
Resolved(data) == [ok |-> TRUE, data |-> data]

HomeReplies == {Resolved([message |-> "Welcome to the API!"]), Rejected}
ProfileReplies == {Resolved([message |-> "Profile created successfully!"]), Rejected}
UsersReplies ==
    {Resolved([message |-> "Users retrieved successfully", users |-> <<>>, count |-> 0]),
     Resolved([message |-> "Users retrieved successfully", users |-> <<ListedUser>>,
               count |-> 1]),
     Resolved([message |-> "Internal Server Error"]),
     Rejected}
DeleteReplies == {Resolved([message |-> "User deleted successfully!"]), Rejected}
QuoteReplies == {Resolved([quote |-> quotes[1]]), Rejected}
StatsReplies == {Resolved([totalRequests |-> 1, totalUsers |-> 0]), Rejected}

\* a request handed to axios and not yet settled
Call(handler, method, url, body) ==
    [handler |-> handler, method |-> method, url |-> url, body |-> body]

NoBody == [username |-> Undefined, email |-> Undefined]

Act(handler, step) == [handler |-> handler, step |-> step]

\* a button is enabled and another request may be started
CanClick == ~page.loading /\ Len(calls) < MaxInFlight

\* `calls` without its i-th element
Without(cs, i) == SubSeq(cs, 1, i - 1) \o SubSeq(cs, i + 1, Len(cs))

\* onChange of the username input
setUsername ==
    /\ \E typed \in UsernameInputs : page' = [page EXCEPT !.username = typed]
    /\ acted' = Act("setUsername", "change")
    /\ UNCHANGED <<calls, backend>>

\* onChange of the email input
setEmail ==
    /\ \E typed \in EmailInputs : page' = [page EXCEPT !.email = typed]
    /\ acted' = Act("setEmail", "change")
    /\ UNCHANGED <<calls, backend>>

\* handleGetRequest up to its await
handleGetRequest ==
    /\ CanClick
    /\ page' = [page EXCEPT !.loading = TRUE]
    /\ calls' = Append(calls, Call("handleGetRequest", "GET", "/", NoBody))
    /\ acted' = Act("handleGetRequest", "call")
    /\ UNCHANGED backend

\* handleGetRequest from its await on
handleGetRequestResume ==
    /\ \E i \in 1..Len(calls), response \in HomeReplies :
         /\ calls[i].handler = "handleGetRequest"
         /\ page' = [page EXCEPT
                       !.data = IF response.ok THEN response.data.message
                                ELSE "Error fetching data",
                       !.loading = FALSE]
         /\ calls' = Without(calls, i)
    /\ acted' = Act("handleGetRequest", "resume")
    /\ UNCHANGED backend

\* handleGetUsers up to its await, as the other handlers run it
GetUsersCall == Call("handleGetUsers", "GET", "/users", NoBody)

\* handlePostRequest up to its await, or to its early return
handlePostRequest ==
    /\ CanClick
    /\ IF trim(page.username) = <<>>
       THEN /\ page' = [page EXCEPT !.data = "Please enter a username!"]
            /\ UNCHANGED calls
       ELSE /\ page' = [page EXCEPT !.loading = TRUE]
            /\ calls' = Append(calls,
                   Call("handlePostRequest", "POST", "/profile",
                        [username |-> Text(page.username),
                         email |-> OrElse(Text(page.email), Undefined)]))
    /\ acted' = Act("handlePostRequest", "call")
    /\ UNCHANGED backend

\* handlePostRequest from its await on: on success it runs handleGetUsers up
\* to that handler's await, and then its own finally block
handlePostRequestResume ==
    /\ \E i \in 1..Len(calls), response \in ProfileReplies :
         /\ calls[i].handler = "handlePostRequest"
         /\ IF response.ok
            THEN /\ page' = [page EXCEPT !.data = response.data.message,
                                         !.username = <<>>, !.email = <<>>,
                                         !.loading = FALSE]
                 /\ calls' = Append(Without(calls, i), GetUsersCall)
            ELSE /\ page' = [page EXCEPT !.data = "Error posting data",
                                         !.loading = FALSE]
                 /\ calls' = Without(calls, i)
    /\ acted' = Act("handlePostRequest", "resume")
    /\ UNCHANGED backend

\* handleGetUsers up to its await, run from its button
handleGetUsers ==
    /\ CanClick
    /\ page' = [page EXCEPT !.loading = TRUE]
    /\ calls' = Append(calls, GetUsersCall)
    /\ acted' = Act("handleGetUsers", "call")
    /\ UNCHANGED backend

\* handleGetUsers from its await on
handleGetUsersResume ==
    /\ \E i \in 1..Len(calls), response \in UsersReplies :
         /\ calls[i].handler = "handleGetUsers"
         /\ IF response.ok
            THEN page' = [page EXCEPT
                            !.users = IF "users" \in DOMAIN response.data
                                      THEN response.data.users ELSE <<>>,
                            !.data = "Found "
                                       \o (IF "count" \in DOMAIN response.data
                                           THEN ToString(response.data.count)
                                           ELSE ToStringJS(Undefined))
                                       \o " users",
                            !.loading = FALSE]
            ELSE page' = [page EXCEPT !.data = "Error fetching users",
                                      !.loading = FALSE]
         /\ calls' = Without(calls, i)
    /\ acted' = Act("handleGetUsers", "resume")
    /\ UNCHANGED backend

\* handleDeleteUser(user.id) up to its await, from the button of a listed user
handleDeleteUser ==
    /\ CanClick
    /\ \E i \in 1..Len(page.users) :
         calls' = Append(calls,
                    Call("handleDeleteUser", "DELETE", "/users/" \o page.users[i].id, NoBody))
    /\ page' = [page EXCEPT !.loading = TRUE]
    /\ acted' = Act("handleDeleteUser", "call")
    /\ UNCHANGED backend

\* handleDeleteUser from its await on: on success it runs handleGetUsers up
\* to that handler's await, and then its own finally block
handleDeleteUserResume ==
    /\ \E i \in 1..Len(calls), response \in DeleteReplies :
         /\ calls[i].handler = "handleDeleteUser"
         /\ IF response.ok
            THEN /\ page' = [page EXCEPT !.data = response.data.message,
                                         !.loading = FALSE]
                 /\ calls' = Append(Without(calls, i), GetUsersCall)
            ELSE /\ page' = [page EXCEPT !.data = "Error deleting user",
                                         !.loading = FALSE]
                 /\ calls' = Without(calls, i)
    /\ acted' = Act("handleDeleteUser", "resume")
    /\ UNCHANGED backend

\* handleGetQuote up to its await
handleGetQuote ==
    /\ CanClick
    /\ page' = [page EXCEPT !.loading = TRUE]
    /\ calls' = Append(calls, Call("handleGetQuote", "GET", "/quote", NoBody))
    /\ acted' = Act("handleGetQuote", "call")
    /\ UNCHANGED backend

\* handleGetQuote from its await on
handleGetQuoteResume ==
    /\ \E i \in 1..Len(calls), response \in QuoteReplies :
         /\ calls[i].handler = "handleGetQuote"
         /\ IF response.ok
            THEN page' = [page EXCEPT !.quote = response.data.quote,
                                      !.data = "New quote loaded!",
                                      !.loading = FALSE]
            ELSE page' = [page EXCEPT !.data = "Error fetching quote",
                                      !.loading = FALSE]
         /\ calls' = Without(calls, i)
    /\ acted' = Act("handleGetQuote", "resume")
    /\ UNCHANGED backend

\* handleGetStats up to its await
handleGetStats ==
    /\ CanClick
    /\ page' = [page EXCEPT !.loading = TRUE]
    /\ calls' = Append(calls, Call("handleGetStats", "GET", "/stats", NoBody))
    /\ acted' = Act("handleGetStats", "call")
    /\ UNCHANGED backend

\* handleGetStats from its await on
handleGetStatsResume ==
    /\ \E i \in 1..Len(calls), response \in StatsReplies :
         /\ calls[i].handler = "handleGetStats"
         /\ IF response.ok
            THEN page' = [page EXCEPT !.stats = response.data,
                                      !.data = "Stats updated!",
                                      !.loading = FALSE]
            ELSE page' = [page EXCEPT !.data = "Error fetching stats",
                                      !.loading = FALSE]
         /\ calls' = Without(calls, i)
    /\ acted' = Act("handleGetStats", "resume")
    /\ UNCHANGED backend

NextDashboard ==
    \/ setUsername
    \/ setEmail
    \/ handleGetRequest
    \/ handleGetRequestResume
    \/ handlePostRequest
    \/ handlePostRequestResume
    \/ handleGetUsers
    \/ handleGetUsersResume
    \/ handleDeleteUser
    \/ handleDeleteUserResume
    \/ handleGetQuote
    \/ handleGetQuoteResume
    \/ handleGetStats
    \/ handleGetStatsResume

\* the dashboard alone, against an API that may answer anything
SpecDashboard == Init /\ [][NextDashboard]_vars

(***************************************************************************)
(* Vocabulary of the properties.                                           *)
(***************************************************************************)
\* this step settles a handler invocation
Handled == trace' # trace

\* this step settles an invocation of `route`
Handles(route) == Handled /\ req'.route = route

\* the last settled invocation was of `route`
Last(route) == trace # <<>> /\ req.route = route

\* the positions of the settled invocations of `route` that answered `status`
Answered(route, status) ==
    {i \in 1..Len(trace) : trace[i].route = route /\ trace[i].status = status}

\* no deleteUser invocation has settled
NoDeletes == \A i \in 1..Len(trace) : trace[i].route # "deleteUser"

\* the positions in `us` of the records whose id is the text of `userId`
Matching(us, userId) == {i \in 1..Len(us) : Str(us[i].id) = userId}

\* the object the body text of the last request parses to
LastBody == JSONparse(Coalesce(req.body, Str("{}")).v).val

GenericError == [message |-> "Internal Server Error"]

\* the Secrets Manager call failed: it threw, or answered without a SecretString
FetchFailed(outcome) == outcome.threw \/ ~Truthy(outcome.SecretString)

\* the Secrets Manager call answered with a SecretString that is not JSON
ParseFailed(outcome) ==
    /\ outcome # NoOutcome
    /\ ~FetchFailed(outcome)
    /\ ~JSONparse(outcome.SecretString.v).ok

(***************************************************************************)
(* C1: the ids createProfile assigns in one process lifetime are pairwise  *)
(* distinct: no two records of `users` share an id, and no id is assigned  *)
(* to a second record, not even after its first holder was deleted.        *)
(***************************************************************************)
C1_IdsPairwiseDistinct ==
    /\ \A i, j \in 1..Len(users) : i # j => users[i].id # users[j].id
    /\ \A i, j \in 1..Len(created) : i # j => created[i].id # created[j].id

(***************************************************************************)
(* C2: a deleteUser whose id matches a record of `users` answers 200,      *)
(* shrinks the collection by exactly one, reports remainingUsers = size    *)
(* before - 1, and leaves no record with that id.                          *)
(***************************************************************************)
C2_DeletePresentRemovesOne ==
    [][(Handles("deleteUser") /\ Matching(users, req'.id) # {}) =>
          /\ resp'.statusCode = 200
          /\ Len(users') = Len(users) - 1
          /\ resp'.body.remainingUsers = Len(users) - 1
          /\ Matching(users', req'.id) = {}]_vars

(***************************************************************************)
(* C3: every handled request, on each of the seven handlers, raises the    *)
(* request counter by exactly one.                                         *)
(***************************************************************************)
C3_EveryRequestCounted ==
    [][Handled => requestCount' = requestCount + 1]_vars

(***************************************************************************)
(* C4: a request that ends in a failure outcome (400, 404, 500 or a fault) *)
(* still raises the request counter by one.                                *)
(***************************************************************************)
C4_FailuresCounted ==
    [][(Handled /\ (resp'.outcome = "fault" \/ resp'.statusCode \in {400, 404, 500})) =>
          requestCount' = requestCount + 1]_vars

(***************************************************************************)
(* C5 as stated: whenever the secret fetch or the secret parse of a        *)
(* POST /login failed, the answer is 500 with the generic body.            *)
(***************************************************************************)
C5_AnySecretFailureIs500 ==
    (Last("loginRoute") /\ fetched # NoOutcome
       /\ (FetchFailed(fetched) \/ ParseFailed(fetched))) =>
        /\ resp.statusCode = 500
        /\ resp.body = GenericError

(***************************************************************************)
(* C5 amended: loginRoute never faults; each 500 it answers carries        *)
(* exactly the generic body; a secret that fails to parse is answered 500; *)
(* a failed fetch is taken as the empty key, and is answered 200 when the  *)
(* username is a string.                                                   *)
(***************************************************************************)
C5_LoginFailuresCaught ==
    Last("loginRoute") =>
        /\ resp.outcome = "response"
        /\ resp.statusCode \in {200, 500}
        /\ resp.statusCode = 500 => resp.body = GenericError
        /\ ParseFailed(fetched) => resp.statusCode = 500
        /\ (fetched # NoOutcome /\ FetchFailed(fetched)) =>
              (resp.statusCode = 200 <=> LastBody.username.t = "string")

C5_Witness ==
    /\ Last("loginRoute")
    /\ ParseFailed(fetched)
    /\ resp.statusCode = 500
    /\ resp.body = GenericError

(***************************************************************************)
(* C6: after N successful createProfile calls and no deleteUser call, from *)
(* the empty directory, the directory holds N records and the n-th         *)
(* response reported totalUsers = n.                                       *)
(***************************************************************************)
C6_SizeAfterCreates ==
    NoDeletes =>
        /\ Len(users) = Cardinality(Answered("createProfile", 201))
        /\ (Last("createProfile") /\ resp.statusCode = 201) =>
              resp.body.totalUsers = Cardinality(Answered("createProfile", 201))

C6_Witness ==
    /\ NoDeletes
    /\ Cardinality(Answered("createProfile", 201)) = 2
    /\ Last("createProfile")
    /\ resp.statusCode = 201
    /\ resp.body.totalUsers = 2
    /\ Len(users) = 2

(***************************************************************************)
(* C7: a deleteUser with a non-empty id that matches no record answers 404 *)
(* and leaves `users` as it was: same records, same order, same size.      *)
(***************************************************************************)
C7_DeleteAbsentKeepsUsers ==
    [][(Handles("deleteUser") /\ Truthy(req'.id) /\ Matching(users, req'.id) = {}) =>
          /\ resp'.statusCode = 404
          /\ users' = users]_vars

C7_Witness ==
    /\ Last("deleteUser")
    /\ Truthy(req.id)
    /\ resp.statusCode = 404
    /\ Len(users) = 2
    /\ users = created

(***************************************************************************)
(* C8: on an instance that starts empty, POST /profile {username: alice}   *)
(* answers 201 with email alice@example.com; GET /users then answers       *)
(* count = 1 and lists that user; DELETE of that user's id then answers    *)
(* 200 with remainingUsers = 0; the same DELETE again answers 404.         *)
(***************************************************************************)
C8_AliceCreated ==
    /\ Len(trace) >= 1
    /\ trace[1] = [route |-> "createProfile", status |-> 201]
    /\ created[1].username = Str("alice")
    /\ created[1].email = Str("alice@example.com")

C8_EndToEnd ==
    /\ (Len(trace) = 1 /\ Last("createProfile") /\ req.body = Str(T_ALICE)) =>
          /\ resp.statusCode = 201
          /\ resp.body.user.email = Str("alice@example.com")
    /\ (Len(trace) = 2 /\ C8_AliceCreated /\ Last("getUsers")) =>
          /\ resp.body.count = 1
          /\ resp.body.users = <<StringifyUser(created[1])>>
    /\ (Len(trace) = 3 /\ C8_AliceCreated /\ trace[2].route = "getUsers"
          /\ Last("deleteUser") /\ req.id = Str(created[1].id)) =>
          /\ resp.statusCode = 200
          /\ resp.body.remainingUsers = 0
    /\ (Len(trace) = 4 /\ C8_AliceCreated /\ trace[2].route = "getUsers"
          /\ trace[3] = [route |-> "deleteUser", status |-> 200]
          /\ Last("deleteUser") /\ req.id = Str(created[1].id)) =>
          resp.statusCode = 404

(***************************************************************************)
(* C9: from a counter of 0, once GET /, POST /profile and GET /users have  *)
(* been handled in that order, the request counter is 3.                   *)
(***************************************************************************)
C9_ThreeRequestsCounted ==
    (/\ Len(trace) = 3
     /\ trace[1].route = "homeRoute"
     /\ trace[2] = [route |-> "createProfile", status |-> 201]
     /\ trace[3].route = "getUsers") => requestCount = 3

C9_Witness ==
    /\ Len(trace) = 3
    /\ trace[1].route = "homeRoute"
    /\ trace[2] = [route |-> "createProfile", status |-> 201]
    /\ trace[3].route = "getUsers"
    /\ requestCount = 3

(***************************************************************************)
(* C10: the record createProfile stores has the caller's email when the    *)
(* body carries a non-empty one, and username + "@example.com" when the    *)
(* email is absent or the empty string.                                    *)
(***************************************************************************)
C10_EmailDefault ==
    (Last("createProfile") /\ resp.statusCode = 201) =>
        LET stored == users[Len(users)]
        IN  /\ (LastBody.email.t = "string" /\ LastBody.email.v # "") =>
                  stored.email = LastBody.email
            /\ (LastBody.email.t = "undefined" \/ LastBody.email = Str("")) =>
                  stored.email = Str(ToStringJS(LastBody.username) \o "@example.com")

C10_Witness ==
    /\ Last("createProfile")
    /\ resp.statusCode = 201
    /\ req.body = Str(T_ALICE_NOMAIL)
    /\ Len(users) = 2
    /\ users[1].email = Str("alice@corp.io")
    /\ users[2].email = Str("alice@example.com")

(***************************************************************************)
(* C11: every user count reported to a caller is the number of records in  *)
(* `users` at the response: totalUsers of getStats and createProfile,      *)
(* count of getUsers, remainingUsers of deleteUser.                        *)
(***************************************************************************)
C11_CountsAreLive ==
    /\ Last("getStats") => resp.body.totalUsers = Len(users)
    /\ (Last("createProfile") /\ resp.statusCode = 201) =>
          resp.body.totalUsers = Len(users)
    /\ Last("getUsers") =>
          /\ resp.body.count = Len(users)
          /\ resp.body.count = Len(resp.body.users)
    /\ (Last("deleteUser") /\ resp.statusCode = 200) =>
          resp.body.remainingUsers = Len(users)

C11_Witness ==
    /\ Last("getStats")
    /\ Len(users) = 2
    /\ resp.body.totalUsers = 2

(***************************************************************************)
(* C12: getUsers returns all current records in insertion order: `users`   *)
(* lists surviving records in the order createProfile made them, whatever  *)
(* creates and deletes came before, and getUsers answers with that list.   *)
(***************************************************************************)
\* `short` is `long` with some elements left out, the order kept
IsSubSeq(short, long) ==
    \E f \in [1..Len(short) -> 1..Len(long)] :
        /\ \A i, j \in 1..Len(short) : i < j => f[i] < f[j]
        /\ \A i \in 1..Len(short) : short[i] = long[f[i]]

C12_InsertionOrder ==
    /\ IsSubSeq(users, created)
    /\ Last("getUsers") => resp.body.users = StringifyUsers(users)

C12_Witness ==
    /\ Last("getUsers")
    /\ Len(created) = 3
    /\ created[2] # created[3]
    /\ removed = <<created[1]>>
    /\ trace[4] = [route |-> "deleteUser", status |-> 200]
    /\ resp.body.users = <<StringifyUser(created[2]), StringifyUser(created[3])>>

(***************************************************************************)
(* C13: a deleteUser invoked without an id (absent or empty) answers 400   *)
(* "User ID is required" as a normal response and leaves `users` as it     *)
(* was.                                                                    *)
(***************************************************************************)
C13_MissingIdIs400 ==
    [][(Handles("deleteUser") /\ req'.id \in {Undefined, Str("")}) =>
          /\ resp'.outcome = "response"
          /\ resp'.statusCode = 400
          /\ resp'.body = [message |-> "User ID is required"]
          /\ users' = users]_vars

C13_Witness ==
    /\ Last("deleteUser")
    /\ req.id = Str("")
    /\ resp.statusCode = 400
    /\ Len(users) = 2

(***************************************************************************)
(* C14 as stated: whenever fetchSecret yielded undefined, loginRoute       *)
(* answers 200 and not 500.                                                *)
(***************************************************************************)
C14_AbsentSecretIs200 ==
    (Last("loginRoute") /\ fetched # NoOutcome /\ fetchSecret(fetched) = Undefined) =>
        resp.statusCode = 200

(***************************************************************************)
(* C14 amended: when fetchSecret yielded undefined and the body carries a  *)
(* string username, loginRoute answers 200 with the HMAC-SHA256 digest of  *)
(* the username under the empty key; when the username is missing or not   *)
(* a string it answers 500.                                                *)
(***************************************************************************)
C14_AbsentSecretEmptyKey ==
    (Last("loginRoute") /\ fetched # NoOutcome
       /\ (fetched.threw \/ fetched.SecretString \in {Undefined, Str("")})) =>
        IF LastBody.username.t = "string"
        THEN /\ resp.statusCode = 200
             /\ LastBody.username.v = "alice" =>
                   resp.body = [username |->
                     "ce3837f76a54a635191b1704ac7672264fc17c3397ff52e7dacfc1ef3603a493"]
        ELSE resp.statusCode = 500

C14_Witness ==
    /\ Last("loginRoute")
    /\ fetched.threw
    /\ req.body = Str(T_ALICE)
    /\ resp.statusCode = 200

(***************************************************************************)
(* C15: fetchSecret never propagates a failure: when the Secrets Manager   *)
(* call throws, answers without a SecretString or answers an empty one, it *)
(* resolves to undefined; otherwise it resolves to the SecretString        *)
(* unchanged.                                                              *)
(***************************************************************************)
C15_FetchSecretTotal ==
    (Last("loginRoute") /\ fetched # NoOutcome) =>
        IF fetched.threw \/ fetched.SecretString \in {Undefined, Str("")}
        THEN fetchSecret(fetched) = Undefined
        ELSE fetchSecret(fetched) = fetched.SecretString

C15_Witness ==
    /\ Last("loginRoute")
    /\ ~fetched.threw
    /\ fetched.SecretString = Str("")
    /\ resp.statusCode = 200

(***************************************************************************)
(* C17: every response a handler returns, success or failure, carries the  *)
(* three CORS headers.                                                     *)
(***************************************************************************)
C17_CorsOnEveryResponse ==
    resp.outcome = "response" =>
        /\ resp.headers.AllowOrigin = "*"
        /\ resp.headers.AllowHeaders = "Content-Type"
        /\ resp.headers.AllowMethods = "GET,POST,PUT,DELETE,OPTIONS"

C17_Witness ==
    /\ Last("loginRoute")
    /\ resp.statusCode = 500
    /\ resp.headers.AllowOrigin = "*"
    /\ \E i \in 1..Len(trace) : trace[i].status = 404
    /\ \E i \in 1..Len(trace) : trace[i].status = 201

(***************************************************************************)
(* C18: a user record is never mutated after creation and disappears only  *)
(* through a deleteUser called with its id: over every step, each record   *)
(* of `users` is still there unchanged unless the step is a deleteUser     *)
(* with that record's id, and each record there after the step was there   *)
(* before or is the one createProfile has just appended.                   *)
(***************************************************************************)
C18_RecordsImmutable ==
    [][/\ \A i \in 1..Len(users) :
            \/ \E j \in 1..Len(users') : users'[j] = users[i]
            \/ Handles("deleteUser") /\ req'.id = Str(users[i].id)
       /\ \A j \in 1..Len(users') :
            \/ \E i \in 1..Len(users) : users[i] = users'[j]
            \/ Handles("createProfile") /\ j = Len(users')]_vars

C18_Witness ==
    /\ Last("deleteUser")
    /\ resp.statusCode = 200
    /\ Len(created) = 2
    /\ Len(users) = 1
    /\ users[1] \in {created[1], created[2]}

(***************************************************************************)
(* C19: the request counter starts at 0 and never decreases or is reset.   *)
(***************************************************************************)
C19_CounterMonotonic ==
    /\ requestCount = 0
    /\ [][requestCount' >= requestCount]_vars

C19_Witness == requestCount = 3

(***************************************************************************)
(* C20: no update is lost under any interleaving of the handlers with      *)
(* suspended loginRoute invocations: the counter is the number of          *)
(* increments performed, and `users` holds exactly the created records     *)
(* minus the deleted ones.                                                 *)
(***************************************************************************)
\* the settled invocation `e` went through a requestCount++
Incremented(e) ==
    \/ e.route \in {"homeRoute", "getUsers", "getRandomQuote", "getStats"}
    \/ e.route = "createProfile" /\ e.status = 201
    \/ e.route = "deleteUser" /\ e.status \in {200, 404}

\* how often `x` occurs in `seq`
Count(seq, x) == Cardinality({i \in 1..Len(seq) : seq[i] = x})

C20_NoLostUpdate ==
    /\ requestCount = Cardinality({i \in 1..Len(trace) : Incremented(trace[i])})
    /\ Len(users) + Len(removed) = Len(created)
    /\ \A i \in 1..Len(created) :
          Count(users, created[i]) + Count(removed, created[i])
              = Count(created, created[i])

C20_Witness ==
    /\ pending # <<>>
    /\ pending[1].since = 0
    /\ Len(created) = 1
    /\ Len(removed) = 1
    /\ users = <<>>
    /\ requestCount = 2

(***************************************************************************)
(* C21: createProfile has no partial-failure path: each invocation either  *)
(* appends one record, raises the counter by one and answers 201, or       *)
(* leaves both `users` and the counter as they were.                       *)
(***************************************************************************)
C21_CreateAllOrNothing ==
    [][Handles("createProfile") =>
          \/ /\ resp'.statusCode = 201
             /\ Len(users') = Len(users) + 1
             /\ SubSeq(users', 1, Len(users)) = users
             /\ requestCount' = requestCount + 1
          \/ /\ resp'.statusCode # 201
             /\ users' = users
             /\ requestCount' = requestCount]_vars

C21_Witness ==
    /\ Last("createProfile")
    /\ resp.outcome = "fault"
    /\ Len(users) = 1
    /\ requestCount = 1

(***************************************************************************)
(* C22: the user object of createProfile's 201 response equals, field for  *)
(* field, the record it appended, which is the last element of `users`     *)
(* at response time.  A field the JSON text leaves out reads as undefined. *)
(***************************************************************************)
\* o.f as the receiver of the JSON text reads it
Field(o, f) == IF f \in DOMAIN o THEN o[f] ELSE Undefined

C22_ReturnedIsStored ==
    (Last("createProfile") /\ resp.statusCode = 201) =>
        LET stored == users[Len(users)]
            returned == resp.body.user
        IN  /\ returned.id = stored.id
            /\ Field(returned, "username") = stored.username
            /\ returned.email = stored.email
            /\ returned.createdAt = stored.createdAt

C22_Witness ==
    /\ Last("createProfile")
    /\ resp.statusCode = 201
    /\ Len(users) = 2
    /\ users[1].id # users[2].id
    /\ resp.body.user.id = users[2].id
    /\ resp.body.user.email = Str("alice@corp.io")

(***************************************************************************)
(* C23 as stated: every record held in `users` has a non-empty string      *)
(* username, in every state reachable through the handlers.                *)
(***************************************************************************)
C23_UsernamesNonEmpty ==
    \A i \in 1..Len(users) :
        /\ users[i].username.t = "string"
        /\ users[i].username.v # ""

(***************************************************************************)
(* C23 amended: the username of the record createProfile stores is the     *)
(* username field of the request body exactly as the caller supplied it,   *)
(* unvalidated: a non-empty string when the caller sent one, the empty     *)
(* string or undefined when the caller sent that.                          *)
(***************************************************************************)
C23_UsernameAsSupplied ==
    (Last("createProfile") /\ resp.statusCode = 201) =>
        users[Len(users)].username = LastBody.username

C23_Witness ==
    /\ Last("createProfile")
    /\ resp.statusCode = 201
    /\ req.body = Str(T_BLANK)
    /\ Len(users) = 2
    /\ users[1].username = Str("alice")
    /\ users[2].username = Str("")

(***************************************************************************)
(* C24: getRandomQuote always answers 200 with one of the eight entries of *)
(* the fixed catalog: the chosen index is within 0..7.                     *)
(***************************************************************************)
C24_QuoteFromCatalog ==
    /\ Len(quotes) = 8
    /\ Last("getRandomQuote") =>
          /\ resp.outcome = "response"
          /\ resp.statusCode = 200
          /\ \E i \in 1..8 : resp.body.quote = quotes[i]

C24_Witness ==
    /\ Last("getRandomQuote")
    /\ resp.body.quote = quotes[8]
    /\ Len(trace) = 2
    /\ trace[1].route = "getRandomQuote"

(***************************************************************************)
(* C25: only createProfile and deleteUser change `users`: every step that  *)
(* changes it settles one of the two, and loginRoute leaves it alone both  *)
(* when it is called and when it resumes after its await.                  *)
(***************************************************************************)
C25_OnlyCreateAndDeleteWrite ==
    [][/\ users' # users => (Handles("createProfile") \/ Handles("deleteUser"))
       /\ pending' # pending => users' = users]_vars

C25_Witness ==
    /\ pending # <<>>
    /\ pending[1].since = 0
    /\ Last("getUsers")
    /\ resp.body.count = 1
    /\ Len(users) = 1
    /\ trace[1] = [route |-> "createProfile", status |-> 201]

(***************************************************************************)
(* C28: loginRoute answers 200 exactly when the body parses to an object   *)
(* with a string username and the secret is either absent or a JSON object *)
(* text carrying a string encryptionKey; in every other case it answers    *)
(* 500.                                                                    *)
(***************************************************************************)
C28_LoginStatus ==
    Last("loginRoute") =>
        LET body == JSONparse(Coalesce(req.body, Str("{}")).v)
            bodyOk == /\ body.ok
                      /\ body.val.t = "object"
                      /\ body.val.username.t = "string"
            absent == fetched.threw \/ fetched.SecretString \in {Undefined, Str("")}
            secret == JSONparse(fetched.SecretString.v)
            keyed == /\ ~absent
                     /\ secret.ok
                     /\ secret.val.t = "object"
                     /\ secret.val.encryptionKey.t = "string"
        IN  /\ resp.outcome = "response"
            /\ resp.statusCode \in {200, 500}
            /\ resp.statusCode = 200 <=>
                  (bodyOk /\ fetched # NoOutcome /\ (absent \/ keyed))

C28_Witness ==
    /\ Last("loginRoute")
    /\ req.body = Str(T_ALICE)
    /\ ~fetched.threw
    /\ fetched.SecretString = Str(T_EMPTY)
    /\ resp.statusCode = 500

(***************************************************************************)
(* C29 as stated: deleteUser removes every record whose id equals the      *)
(* requested id: with k >= 1 such records it answers 200 with              *)
(* remainingUsers = size before - k, and it answers 404 exactly when       *)
(* k = 0.                                                                  *)
(***************************************************************************)
C29_DeleteRemovesEveryMatch ==
    [][Handles("deleteUser") =>
          LET k == Cardinality(Matching(users, req'.id))
          IN  /\ Matching(users', req'.id) = {}
              /\ k >= 1 => /\ resp'.statusCode = 200
                           /\ resp'.body.remainingUsers = Len(users) - k
              /\ resp'.statusCode = 404 <=> k = 0]_vars

(***************************************************************************)
(* C29 amended: a deleteUser called with a non-empty id removes every      *)
(* record carrying that id: with k >= 1 such records it answers 200 with   *)
(* remainingUsers = size before - k, and it answers 404 exactly when       *)
(* k = 0.  Called with an absent or empty id it answers 400 and removes    *)
(* nothing, also when a record carries the empty id.                       *)
(***************************************************************************)
C29_DeleteRemovesAllMatches ==
    [][/\ (Handles("deleteUser") /\ req'.id.t = "string" /\ req'.id.v # "") =>
            LET k == Cardinality(Matching(users, req'.id))
            IN  /\ Matching(users', req'.id) = {}
                /\ Len(users') = Len(users) - k
                /\ k >= 1 => /\ resp'.statusCode = 200
                             /\ resp'.body.remainingUsers = Len(users) - k
                /\ resp'.statusCode = 404 <=> k = 0
       /\ (Handles("deleteUser") /\ req'.id \in {Undefined, Str("")}) =>
            /\ resp'.statusCode = 400
            /\ users' = users]_vars

C29_Witness ==
    /\ Last("deleteUser")
    /\ resp.statusCode = 200
    /\ resp.body.remainingUsers = 0
    /\ Len(removed) = 2
    /\ Len(trace) = 3

(***************************************************************************)
(* C26: in the dashboard, `loading` is true whenever a request started by  *)
(* one of its handlers is still awaiting its answer, the GET /users        *)
(* refresh started by handlePostRequest and handleDeleteUser included.     *)
(***************************************************************************)
C26_LoadingWhileInFlight == calls # <<>> => page.loading

(***************************************************************************)
(* C27: when the username input is empty or only whitespace,               *)
(* handlePostRequest sends no POST /profile and leaves loading, users,     *)
(* username and email as they were; it sets only the message.              *)
(***************************************************************************)
\* the input holds nothing but whitespace
Blank(chars) == \A i \in 1..Len(chars) : chars[i] \in WhiteSpace

C27_BlankUsernameRejected ==
    [][(acted' = Act("handlePostRequest", "call") /\ Blank(page.username)) =>
          /\ calls' = calls
          /\ page' = [page EXCEPT !.data = "Please enter a username!"]]_vars

C27_Witness ==
    /\ acted = Act("handlePostRequest", "call")
    /\ page.username = <<" ", "\t">>
    /\ page.email = <<"m">>
    /\ page.users = <<ListedUser>>
    /\ page.data = "Please enter a username!"
    /\ calls = <<>>
    /\ ~page.loading

(***************************************************************************)
(* C30: in the deployed topology each route has a function of its own with *)
(* its own `users` and `requestCount`, so what POST /profile stores is     *)
(* seen by no other route: GET /users always reports count 0, GET /stats   *)
(* always reports totalUsers 0, and DELETE /users/{id} never answers 200.  *)
(***************************************************************************)
C30_RoutesShareNothing ==
    /\ \A f \in Functions \ {"profileLambda"} : lambdas[f].users = <<>>
    /\ Last("getUsers") => (resp.body.count = 0 /\ resp.body.users = <<>>)
    /\ Last("getStats") => resp.body.totalUsers = 0
    /\ Last("deleteUser") => resp.statusCode \in {400, 404}

C30_Witness ==
    /\ Len(trace) = 3
    /\ trace[1] = [route |-> "createProfile", status |-> 201]
    /\ trace[2].route = "getUsers"
    /\ Last("deleteUser")
    /\ Len(lambdas["profileLambda"].users) = 1
    /\ req.id = Str(lambdas["profileLambda"].users[1].id)
    /\ resp.statusCode = 404

====
